---------------------------- MODULE Spec2Model ----------------------------
(***************************************************************************)
(* State-machine model of assistant.py: the turn loop (main_loop), the     *)
(* ordered if/elif command interpreter (parse_and_execute), the e-mail     *)
(* sub-dialogue and the collaborators it calls.                            *)
(*                                                                         *)
(* Python strings are modelled as sequences of one-character strings so    *)
(* that substring tests, startswith, replace, strip and split are computed *)
(* the way the interpreter computes them.                                  *)
(***************************************************************************)
EXTENDS Naturals, Integers, Sequences, FiniteSets, TLC

(***************************************************************************)
(* String literals of the source.                                          *)
(***************************************************************************)
\* greeting keywords, line 185
kw_hello == <<"h", "e", "l", "l", "o">>
kw_hi == <<"h", "i">>
kw_hey == <<"h", "e", "y">>
\* time / date keywords, lines 189-191
kw_time == <<"t", "i", "m", "e">>
kw_date == <<"d", "a", "t", "e">>
kw_day == <<"d", "a", "y">>
\* open-website prefix and quick mapping, lines 195-199
pfx_open == <<"o", "p", "e", "n", " ">>
key_youtube == <<"y", "o", "u", "t", "u", "b", "e">>
key_google == <<"g", "o", "o", "g", "l", "e">>
key_gmail == <<"g", "m", "a", "i", "l">>
dom_youtube == <<"y", "o", "u", "t", "u", "b", "e", ".", "c", "o", "m">>
dom_google == <<"g", "o", "o", "g", "l", "e", ".", "c", "o", "m">>
dom_gmail == <<"m", "a", "i", "l", ".", "g", "o", "o", "g", "l", "e", ".", "c", "o", "m">>
\* scheme test and scheme prefix of open_website, lines 95-96
pfx_http == <<"h", "t", "t", "p">>
scheme_https == <<"h", "t", "t", "p", "s", ":", "/", "/">>
\* open-application condition (line 207) and prefixes (line 209)
pfx_launch == <<"l", "a", "u", "n", "c", "h", " ">>
pfx_open_app == <<"o", "p", "e", "n", " ", "a", "p", "p", " ">>
kw_open_application == <<"o", "p", "e", "n", " ", "a", "p", "p", "l", "i", "c", "a", "t", "i", "o", "n">>
pfx_open_application == <<"o", "p", "e", "n", " ", "a", "p", "p", "l", "i", "c", "a", "t", "i", "o", "n", " ">>
\* keys of the apps table, lines 103-107
app_notepad == <<"n", "o", "t", "e", "p", "a", "d">>
app_calculator == <<"c", "a", "l", "c", "u", "l", "a", "t", "o", "r">>
app_code == <<"c", "o", "d", "e">>
\* wikipedia prefixes, line 216
pfx_who_is == <<"w", "h", "o", " ", "i", "s", " ">>
pfx_what_is == <<"w", "h", "a", "t", " ", "i", "s", " ">>
pfx_tell_me_about == <<"t", "e", "l", "l", " ", "m", "e", " ", "a", "b", "o", "u", "t", " ">>
\* weather keyword and the "in" token, lines 222-225
kw_weather == <<"w", "e", "a", "t", "h", "e", "r">>
tok_in == <<"i", "n">>
\* e-mail keywords (line 235), subject default (line 242), affirmative (line 248)
kw_send_email == <<"s", "e", "n", "d", " ", "e", "m", "a", "i", "l">>
kw_send_an_email == <<"s", "e", "n", "d", " ", "a", "n", " ", "e", "m", "a", "i", "l">>
default_subject == <<"N", "o", " ", "s", "u", "b", "j", "e", "c", "t">>
kw_yes == <<"y", "e", "s">>
\* exit keywords, line 254
kw_quit == <<"q", "u", "i", "t">>
kw_exit == <<"e", "x", "i", "t">>
kw_shutdown == <<"s", "h", "u", "t", "d", "o", "w", "n">>
kw_stop_assistant == <<"s", "t", "o", "p", " ", "a", "s", "s", "i", "s", "t", "a", "n", "t">>
kw_goodbye == <<"g", "o", "o", "d", "b", "y", "e">>
\* fallback search URL, line 263
search_url == <<"h", "t", "t", "p", "s", ":", "/", "/", "w", "w", "w", ".", "g", "o", "o", "g", "l", "e", ".", "c", "o", "m", "/", "s", "e", "a", "r", "c", "h", "?", "q", "=">>

(***************************************************************************)
(* Python str operations used by the interpreter.                          *)
(***************************************************************************)
SP == " "

\* s[n:]
Drop(s, n) == SubSeq(s, n + 1, Len(s))

\* sub in s
Contains(s, sub) ==
    \E i \in 0..(Len(s) - Len(sub)) : SubSeq(s, i + 1, i + Len(sub)) = sub

\* s.startswith(p)
StartsWith(s, p) == Len(s) >= Len(p) /\ SubSeq(s, 1, Len(p)) = p

\* s.find(sub): offset of the first occurrence (sub occurs in s)
Find(s, sub) ==
    CHOOSE i \in 0..(Len(s) - Len(sub)) :
        /\ SubSeq(s, i + 1, i + Len(sub)) = sub
        /\ \A j \in 0..(i - 1) : SubSeq(s, j + 1, j + Len(sub)) # sub

\* s.replace(old, new): every non-overlapping occurrence, left to right
RECURSIVE Replace(_, _, _)
Replace(s, old, new) ==
    IF s = <<>> THEN <<>>
    ELSE IF StartsWith(s, old) THEN new \o Replace(Drop(s, Len(old)), old, new)
    ELSE <<Head(s)>> \o Replace(Tail(s), old, new)

RECURSIVE LStrip(_)
LStrip(s) == IF s # <<>> /\ Head(s) = SP THEN LStrip(Tail(s)) ELSE s

RECURSIVE RStrip(_)
RStrip(s) ==
    IF s # <<>> /\ s[Len(s)] = SP THEN RStrip(SubSeq(s, 1, Len(s) - 1)) ELSE s

\* s.strip()
Strip(s) == RStrip(LStrip(s))

\* length of the leading run of non-blank characters
RECURSIVE TokenLen(_)
TokenLen(s) == IF s = <<>> \/ Head(s) = SP THEN 0 ELSE 1 + TokenLen(Tail(s))

\* s.split(): the whitespace-delimited tokens, none empty
RECURSIVE Split(_)
Split(s) ==
    LET t == LStrip(s)
        n == TokenLen(t)
    IN  IF t = <<>> THEN <<>> ELSE <<SubSeq(t, 1, n)>> \o Split(Drop(t, n))

\* s.split(sep, 1)[1]: what follows the first occurrence of sep (sep occurs in s)
AfterFirst(s, sep) == Drop(s, Find(s, sep) + Len(sep))

\* " ".join(words)
RECURSIVE Join(_)
Join(words) ==
    IF words = <<>> THEN <<>>
    ELSE IF Len(words) = 1 THEN words[1]
    ELSE words[1] \o <<SP>> \o Join(Tail(words))

\* Index as a bug would have it: the last position holding w
Index_Last(words, w) ==
    (CHOOSE i \in 1..Len(words) :
        words[i] = w /\ \A j \in (i + 1)..Len(words) : words[j] # w) - 1

\* words.index(w), 0-based: the first position holding w (w is in words)
Index(words, w) ==
    (CHOOSE i \in 1..Len(words) :
        words[i] = w /\ \A j \in 1..(i - 1) : words[j] # w) - 1

\* w in words
InList(words, w) == \E i \in 1..Len(words) : words[i] = w

(***************************************************************************)
(* What listen() can return: lower-cased text, or None.                    *)
(***************************************************************************)
None == [some |-> FALSE, val |-> <<>>]
Some(t) == [some |-> TRUE, val |-> t]

\* Python truthiness of a listen() result: neither None nor ""
Truthy(r) == r.some /\ r.val # <<>>

\* words the generated utterances are built from
w_open == <<"o", "p", "e", "n">>
w_launch == <<"l", "a", "u", "n", "c", "h">>
w_please == <<"p", "l", "e", "a", "s", "e">>
w_application == <<"a", "p", "p", "l", "i", "c", "a", "t", "i", "o", "n">>
Vocabulary ==
    {kw_hello, w_open, key_youtube, w_launch, app_code, kw_weather, tok_in,
     kw_quit, w_application, w_please}

\* longest generated utterance, in words
MaxWords == 3

\* every utterance of at most MaxWords vocabulary words
Generated ==
    {Join(ws) : ws \in UNION {[1..k -> Vocabulary] : k \in 1..MaxWords}}

\* utterances of the documentation and of the source comments, and edge cases
u_empty == <<>>
u_open_example_org == <<"o", "p", "e", "n", " ", "e", "x", "a", "m", "p", "l", "e", ".", "o", "r", "g">>
u_weather_in_new_york == <<"w", "e", "a", "t", "h", "e", "r", " ", "i", "n", " ", "n", "e", "w", " ", "y", "o", "r", "k">>
u_launch_calculator_now == <<"l", "a", "u", "n", "c", "h", " ", "c", "a", "l", "c", "u", "l", "a", "t", "o", "r", " ", "n", "o", "w">>
u_goodbye_open_youtube == <<"g", "o", "o", "d", "b", "y", "e", ",", " ", "o", "p", "e", "n", " ", "y", "o", "u", "t", "u", "b", "e">>
u_open_youtube_goodbye == <<"o", "p", "e", "n", " ", "y", "o", "u", "t", "u", "b", "e", " ", "g", "o", "o", "d", "b", "y", "e">>
u_what_is_the_weather == <<"w", "h", "a", "t", " ", "i", "s", " ", "t", "h", "e", " ", "w", "e", "a", "t", "h", "e", "r">>
u_whats_the_weather_in_paris == <<"w", "h", "a", "t", "'", "s", " ", "t", "h", "e", " ", "w", "e", "a", "t", "h", "e", "r", " ", "i", "n", " ", "p", "a", "r", "i", "s">>
u_weather_in_delhi == <<"w", "e", "a", "t", "h", "e", "r", " ", "i", "n", " ", "d", "e", "l", "h", "i">>
u_weather_in_paris_in_june == <<"w", "e", "a", "t", "h", "e", "r", " ", "i", "n", " ", "p", "a", "r", "i", "s", " ", "i", "n", " ", "j", "u", "n", "e">>
u_weather_in == <<"w", "e", "a", "t", "h", "e", "r", " ", "i", "n">>
u_weather_report == <<"w", "e", "a", "t", "h", "e", "r", " ", "r", "e", "p", "o", "r", "t">>
u_who_is_ada == <<"w", "h", "o", " ", "i", "s", " ", "a", "d", "a">>
u_tell_me_about_what_is_tla == <<"t", "e", "l", "l", " ", "m", "e", " ", "a", "b", "o", "u", "t", " ", "w", "h", "a", "t", " ", "i", "s", " ", "t", "l", "a">>
u_please_launch_sp == <<"p", "l", "e", "a", "s", "e", " ", "l", "a", "u", "n", "c", "h", " ">>
u_please_open_application == <<"p", "l", "e", "a", "s", "e", " ", "o", "p", "e", "n", " ", "a", "p", "p", "l", "i", "c", "a", "t", "i", "o", "n">>
u_please_open_app_notepad == <<"p", "l", "e", "a", "s", "e", " ", "o", "p", "e", "n", " ", "a", "p", "p", " ", "n", "o", "t", "e", "p", "a", "d">>
u_open_app_notepad == <<"o", "p", "e", "n", " ", "a", "p", "p", " ", "n", "o", "t", "e", "p", "a", "d">>
u_launch_notepad == <<"l", "a", "u", "n", "c", "h", " ", "n", "o", "t", "e", "p", "a", "d">>
u_launch_paint == <<"l", "a", "u", "n", "c", "h", " ", "p", "a", "i", "n", "t">>
u_what_day_is_it == <<"w", "h", "a", "t", " ", "d", "a", "y", " ", "i", "s", " ", "i", "t">>
u_what_time_is_it == <<"w", "h", "a", "t", " ", "t", "i", "m", "e", " ", "i", "s", " ", "i", "t">>
u_play_music == <<"p", "l", "a", "y", " ", "m", "u", "s", "i", "c">>
u_stop_assistant_now == <<"s", "t", "o", "p", " ", "a", "s", "s", "i", "s", "t", "a", "n", "t", " ", "n", "o", "w">>
Samples ==
    {u_empty, u_open_example_org, u_weather_in_new_york, u_launch_calculator_now,
     u_goodbye_open_youtube, u_open_youtube_goodbye, u_what_is_the_weather,
     u_whats_the_weather_in_paris, u_weather_in_delhi, u_weather_in_paris_in_june,
     u_weather_in, u_weather_report, u_who_is_ada, u_tell_me_about_what_is_tla,
     u_please_launch_sp, u_please_open_application, u_please_open_app_notepad,
     u_open_app_notepad, u_launch_notepad, u_launch_paint, u_what_day_is_it,
     u_what_time_is_it, u_play_music, u_stop_assistant_now,
     kw_send_email, kw_send_an_email, kw_exit, kw_shutdown, kw_stop_assistant,
     kw_goodbye}

\* results of the top-level listen()
Utterances == {None} \cup {Some(u) : u \in Generated \cup Samples}

\* results of the listen() calls of the e-mail dialogue
r_addr == <<"a", "@", "b", ".", "c", "o", "m">>
r_test_body == <<"t", "e", "s", "t", " ", "b", "o", "d", "y">>
r_yes_please == <<"y", "e", "s", " ", "p", "l", "e", "a", "s", "e">>
Replies ==
    {None, Some(<<>>), Some(r_addr), Some(kw_hi), Some(r_test_body), Some(kw_yes),
     Some(r_yes_please)}

\* outcomes of the external calls
BrowserOutcomes == {"True", "False", "raise"}
CallOutcomes == {"ok", "raise"}
Platforms == {"win32", "darwin", "linux"}

(***************************************************************************)
(* State.                                                                  *)
(***************************************************************************)
VARIABLES
    pc,          \* where the process is: "start", "listen" (main_loop, line 268),
                 \* "parse" (line 269), "recipient" / "subject" / "body" /
                 \* "confirm" (the listen() calls of lines 237-247), "sleep"
                 \* (line 271), or ended: "exited", "crashed", "interrupted"
    text,        \* main_loop's text: the top-level listen() result of the turn
    to_addr,     \* parse_and_execute's locals of the e-mail dialogue
    subject,
    body,
    calls,       \* the collaborator calls of the current turn, in order
    handlers,    \* the intent handlers run in the current turn, in order
    exitCode,    \* the process's exit status, -1 while it runs
    platform,    \* sys.platform
    email_cfg,   \* EMAIL_USER and EMAIL_PASS are both set
    weather_cfg  \* OPENWEATHER_APIKEY is set

vars ==
    <<pc, text, to_addr, subject, body, calls, handlers, exitCode, platform,
      email_cfg, weather_cfg>>

env == <<platform, email_cfg, weather_cfg>>
draft == <<to_addr, subject, body>>

\* one collaborator call: its name, its outcome (for speak: the message), its
\* arguments
Call(fn, tag, args) == [fn |-> fn, tag |-> tag, args |-> args]
Speak(msg, args) == Call("speak", msg, args)
Listen(timeouts, r) == Call("listen", timeouts, IF r.some THEN <<r.val>> ELSE <<>>)

\* what running a handler did: the calls made and whether an exception escaped
Ran(cs, exc) == [calls |-> cs, exc |-> exc]

Init ==
    /\ pc = "start"
    /\ text = None
    /\ to_addr = None
    /\ subject = None
    /\ body = None
    /\ calls = <<>>
    /\ handlers = <<>>
    /\ exitCode = -1
    /\ platform \in Platforms
    /\ email_cfg \in BOOLEAN
    /\ weather_cfg \in BOOLEAN

(***************************************************************************)
(* Collaborators.                                                          *)
(***************************************************************************)
tell_time == Ran(<<Speak("The time is", <<>>)>>, "none")

tell_date == Ran(<<Speak("Today is", <<>>)>>, "none")

\* the whole body is inside try/except Exception
search_wikipedia(query, lookup) ==
    Ran(<<Speak("Searching Wikipedia for", <<query>>),
          Call("wikipedia.summary", lookup, <<query>>),
          IF lookup = "ok" THEN Speak("<summary>", <<>>)
          ELSE Speak("Sorry, I couldn't find that on Wikipedia.", <<>>)>>,
        "none")

\* webbrowser.open is not guarded
open_website(url, browser) ==
    LET u == IF ~StartsWith(url, pfx_http) THEN scheme_https \o url ELSE url
    IN  Ran(<<Speak("Opening", <<u>>), Call("webbrowser.open", browser, <<u>>)>>,
            IF browser = "raise" THEN "Error" ELSE "none")

apps == {app_notepad, app_calculator, app_code}

\* apps[app_key].get(...): TRUE when the platform's entry is a command
HasCommand(app_key, plat) == ~(plat = "darwin" /\ app_key = app_notepad)

open_app(app_key, plat, popen, shell) ==
    IF app_key \notin apps THEN
        Ran(<<Speak("I don't have a mapping for", <<app_key>>)>>, "none")
    ELSE IF plat = "win32" THEN
        \* line 118: Popen outside any try
        Ran(<<Speak("Opening", <<app_key>>),
              Call("subprocess.Popen", popen, <<app_key>>)>>,
            IF popen = "raise" THEN "OSError" ELSE "none")
    ELSE IF HasCommand(app_key, plat) THEN
        IF popen = "ok" THEN
            Ran(<<Speak("Opening", <<app_key>>),
                  Call("subprocess.Popen", popen, <<app_key>>)>>, "none")
        ELSE
            Ran(<<Speak("Opening", <<app_key>>),
                  Call("subprocess.Popen", popen, <<app_key>>),
                  Call("subprocess.call", shell, <<app_key>>)>>
                \o (IF shell = "raise"
                    THEN <<Speak("Could not open the application:", <<>>)>>
                    ELSE <<>>),
                "none")
    ELSE
        Ran(<<Speak("No command configured for your OS", <<>>)>>, "none")

get_weather(city, configured, http) ==
    IF ~configured THEN
        Ran(<<Call("get_weather", "not_configured", <<city>>),
              Speak("Weather API key is not configured.", <<>>)>>, "none")
    ELSE IF http = "ok" THEN
        Ran(<<Call("get_weather", "ok", <<city>>),
              Speak("Weather in", <<city>>)>>, "none")
    ELSE
        Ran(<<Call("get_weather", "raise", <<city>>),
              Speak("Failed to get weather:", <<>>)>>, "none")

send_email(to, subj, msg, configured, smtp) ==
    IF ~configured THEN
        Ran(<<Call("send_email", "False", <<to, subj, msg>>),
              Speak("Email credentials not configured.", <<>>)>>, "none")
    ELSE IF smtp = "ok" THEN
        Ran(<<Call("send_email", "True", <<to, subj, msg>>),
              Speak("Email sent successfully.", <<>>)>>, "none")
    ELSE
        Ran(<<Call("send_email", "False", <<to, subj, msg>>),
              Speak("Failed to send email.", <<>>)>>, "none")

(***************************************************************************)
(* parse_and_execute: the conditions of the if/elif chain, in source order. *)
(***************************************************************************)
GreetCond(t) == \E kw \in {kw_hello, kw_hi, kw_hey} : Contains(t, kw)
TimeCond(t) == Contains(t, kw_time)
DateCond(t) == Contains(t, kw_date) \/ Contains(t, kw_day)
WebsiteCond(t) == StartsWith(t, pfx_open)
AppCond(t) ==
    \/ Contains(t, pfx_launch)
    \/ Contains(t, pfx_open_app)
    \/ Contains(t, kw_open_application)
WikiCond(t) ==
    \/ StartsWith(t, pfx_who_is)
    \/ StartsWith(t, pfx_what_is)
    \/ StartsWith(t, pfx_tell_me_about)
WeatherCond(t) == Contains(t, kw_weather)
EmailCond(t) == Contains(t, kw_send_email) \/ Contains(t, kw_send_an_email)
ExitKeywords == {kw_quit, kw_exit, kw_shutdown, kw_stop_assistant, kw_goodbye}
ExitCond(t) == \E kw \in ExitKeywords : Contains(t, kw)

\* Branch as a bug would have it: the exit rule compares the whole text with the
\* keywords instead of searching it
Branch_ExitExact(t) ==
    IF GreetCond(t) THEN "Greet"
    ELSE IF TimeCond(t) THEN "TellTime"
    ELSE IF DateCond(t) THEN "TellDate"
    ELSE IF WebsiteCond(t) THEN "OpenWebsite"
    ELSE IF AppCond(t) THEN "OpenApp"
    ELSE IF WikiCond(t) THEN "Encyclopedia"
    ELSE IF WeatherCond(t) THEN "Weather"
    ELSE IF EmailCond(t) THEN "ComposeEmail"
    ELSE IF t \in ExitKeywords THEN "Exit"
    ELSE "Unrecognized"

\* the branch of the chain that runs for text t: the first whose condition holds
Branch(t) ==
    IF GreetCond(t) THEN "Greet"
    ELSE IF TimeCond(t) THEN "TellTime"
    ELSE IF DateCond(t) THEN "TellDate"
    ELSE IF WebsiteCond(t) THEN "OpenWebsite"
    ELSE IF AppCond(t) THEN "OpenApp"
    ELSE IF WikiCond(t) THEN "Encyclopedia"
    ELSE IF WeatherCond(t) THEN "Weather"
    ELSE IF EmailCond(t) THEN "ComposeEmail"
    ELSE IF ExitCond(t) THEN "Exit"
    ELSE "Unrecognized"

\* line 197 and the quick mapping of lines 199-204
WebsiteTarget(t) ==
    LET target == Strip(Replace(t, pfx_open, <<>>))
    IN  IF target = key_youtube THEN dom_youtube
        ELSE IF target = key_google THEN dom_google
        ELSE IF target = key_gmail THEN dom_gmail
        ELSE target

\* the prefixes of line 209 that occur in t, in list order
AppPrefixes(t) ==
    SelectSeq(<<pfx_launch, pfx_open_app, pfx_open_application>>,
              LAMBDA p : Contains(t, p))

\* line 211 up to .split(): the tokens after the first occurring prefix
AppTokens(t) == Split(Strip(AfterFirst(t, AppPrefixes(t)[1])))

\* line 218
WikiTopic(t) ==
    Strip(Replace(Replace(Replace(t, pfx_who_is, <<>>), pfx_what_is, <<>>),
                  pfx_tell_me_about, <<>>))

\* lines 224-227: the city, "" when there is none
WeatherCity(t) ==
    LET words == Split(t)
    IN  IF InList(words, tok_in)
        THEN Join(Drop(words, Index(words, tok_in) + 1))
        ELSE <<>>

\* line 262
SearchQuery(t) == Replace(t, <<SP>>, <<"+">>)

(***************************************************************************)
(* The turn loop.                                                          *)
(***************************************************************************)
\* main_loop, line 266
Start ==
    /\ pc = "start"
    /\ calls' = <<Speak("Assistant online.", <<>>)>>
    /\ pc' = "listen"
    /\ UNCHANGED <<text, draft, handlers, exitCode, env>>

\* line 268: a new turn begins
ListenTop ==
    /\ pc = "listen"
    /\ \E r \in Utterances :
        /\ text' = r
        /\ calls' = <<Listen("5/8", r)>>
    /\ handlers' = <<>>
    /\ pc' = "parse"
    /\ UNCHANGED <<draft, exitCode, env>>

\* the end of a branch of parse_and_execute: back in main_loop at its sleep, or
\* the exception escapes main_loop and the process dies
Finish(name, ran) ==
    /\ calls' = calls \o ran.calls
    /\ handlers' = handlers \o name
    /\ pc' = IF ran.exc = "none" THEN "sleep" ELSE "crashed"
    /\ exitCode' = IF ran.exc = "none" THEN exitCode ELSE 1
    /\ UNCHANGED <<text, draft, env>>

\* lines 181-182
NoUtterance ==
    /\ pc = "parse"
    /\ ~text.some
    /\ pc' = "sleep"
    /\ UNCHANGED <<text, draft, calls, handlers, exitCode, env>>

Dispatch(name) == pc = "parse" /\ text.some /\ Branch(text.val) = name

\* lines 185-186
Greet ==
    /\ Dispatch("Greet")
    /\ Finish(<<"Greet">>, Ran(<<Speak("Hello! How can I help you?", <<>>)>>, "none"))

\* lines 189-190
TellTime == Dispatch("TellTime") /\ Finish(<<"TellTime">>, tell_time)

\* lines 191-192
TellDate == Dispatch("TellDate") /\ Finish(<<"TellDate">>, tell_date)

\* lines 195-204
OpenWebsite ==
    /\ Dispatch("OpenWebsite")
    /\ \E browser \in BrowserOutcomes :
        Finish(<<"OpenWebsite">>, open_website(WebsiteTarget(text.val), browser))

\* lines 207-213
OpenApp ==
    /\ Dispatch("OpenApp")
    /\ IF AppPrefixes(text.val) = <<>> THEN
           \* no prefix of the list occurs: the loop ends, nothing runs
           Finish(<<>>, Ran(<<>>, "none"))
       ELSE IF AppTokens(text.val) = <<>> THEN
           \* [0] of an empty list
           Finish(<<>>, Ran(<<>>, "IndexError"))
       ELSE
           \E popen \in CallOutcomes, shell \in CallOutcomes :
               Finish(<<"OpenApp">>,
                      open_app(AppTokens(text.val)[1], platform, popen, shell))

\* lines 216-219
Encyclopedia ==
    /\ Dispatch("Encyclopedia")
    /\ \E lookup \in CallOutcomes :
        Finish(<<"Encyclopedia">>, search_wikipedia(WikiTopic(text.val), lookup))

\* lines 222-232
Weather ==
    /\ Dispatch("Weather")
    /\ LET city == WeatherCity(text.val)
       IN  IF city # <<>> THEN
               \E http \in CallOutcomes :
                   Finish(<<"Weather">>, get_weather(city, weather_cfg, http))
           ELSE
               Finish(<<"Weather">>,
                      Ran(<<Speak("Please include the city after 'in'", <<>>)>>,
                          "none"))

\* Exit as a bug would have it: the farewell without sys.exit
Exit_Returns ==
    /\ pc = "parse" /\ text.some /\ Branch(text.val) = "Exit"
    /\ calls' = Append(calls, Speak("Goodbye!", <<>>))
    /\ handlers' = Append(handlers, "Exit")
    /\ pc' = "sleep"
    /\ UNCHANGED <<text, to_addr, subject, body, exitCode, platform, email_cfg,
                   weather_cfg>>

\* lines 254-256: sys.exit(0) raises SystemExit, which nothing catches
Exit ==
    /\ Dispatch("Exit")
    /\ calls' = Append(calls, Speak("Goodbye!", <<>>))
    /\ handlers' = Append(handlers, "Exit")
    /\ pc' = "exited"
    /\ exitCode' = 0
    /\ UNCHANGED <<text, draft, env>>

\* lines 258-263
Unrecognized ==
    /\ Dispatch("Unrecognized")
    /\ \E browser \in BrowserOutcomes :
        Finish(<<"Unrecognized">>,
               Ran(<<Speak("I didn't catch a command.", <<>>),
                     Call("webbrowser.open", browser,
                          <<search_url \o SearchQuery(text.val)>>)>>,
                   IF browser = "raise" THEN "Error" ELSE "none"))

(***************************************************************************)
(* The e-mail dialogue, lines 235-251: one step per listen().              *)
(***************************************************************************)
\* lines 235-236
ComposeEmail ==
    /\ Dispatch("ComposeEmail")
    /\ calls' = Append(calls, Speak("Who is the recipient?", <<>>))
    /\ handlers' = Append(handlers, "ComposeEmail")
    /\ pc' = "recipient"
    /\ UNCHANGED <<text, draft, exitCode, env>>

\* AwaitRecipient as a bug would have it: only None cancels, "" goes on
AwaitRecipient_NoneOnly ==
    /\ pc = "recipient"
    /\ \E r \in Replies :
        IF ~r.some THEN
            /\ calls' = calls \o <<Listen("8/6", r),
                                   Speak("Recipient not provided. Cancelling.", <<>>)>>
            /\ pc' = "sleep"
            /\ UNCHANGED to_addr
        ELSE
            /\ calls' = calls \o <<Listen("8/6", r), Speak("What is the subject?", <<>>)>>
            /\ to_addr' = r
            /\ pc' = "subject"
    /\ UNCHANGED <<text, subject, body, handlers, exitCode, platform, email_cfg,
                   weather_cfg>>

\* lines 237-241
AwaitRecipient ==
    /\ pc = "recipient"
    /\ \E r \in Replies :
        IF ~Truthy(r) THEN
            /\ calls' = calls \o <<Listen("8/6", r),
                                   Speak("Recipient not provided. Cancelling.", <<>>)>>
            /\ pc' = "sleep"
            /\ UNCHANGED to_addr
        ELSE
            /\ calls' = calls \o <<Listen("8/6", r), Speak("What is the subject?", <<>>)>>
            /\ to_addr' = r
            /\ pc' = "subject"
    /\ UNCHANGED <<text, subject, body, handlers, exitCode, env>>

\* AwaitSubject as a bug would have it: a missing subject stays empty
AwaitSubject_EmptyDefault ==
    /\ pc = "subject"
    /\ \E r \in Replies :
        /\ subject' = IF Truthy(r) THEN r ELSE Some(<<>>)
        /\ calls' = calls \o <<Listen("8/8", r), Speak("Tell me the message.", <<>>)>>
    /\ pc' = "body"
    /\ UNCHANGED <<text, to_addr, body, handlers, exitCode, platform, email_cfg,
                   weather_cfg>>

\* lines 242-243
AwaitSubject ==
    /\ pc = "subject"
    /\ \E r \in Replies :
        /\ subject' = IF Truthy(r) THEN r ELSE Some(default_subject)
        /\ calls' = calls \o <<Listen("8/8", r), Speak("Tell me the message.", <<>>)>>
    /\ pc' = "body"
    /\ UNCHANGED <<text, to_addr, body, handlers, exitCode, env>>

\* lines 244-246
AwaitBody ==
    /\ pc = "body"
    /\ \E r \in Replies :
        /\ body' = IF Truthy(r) THEN r ELSE Some(<<>>)
        /\ calls' = calls \o <<Listen("12/20", r),
                               Speak("Sending email to", <<to_addr.val, subject.val>>)>>
    /\ pc' = "confirm"
    /\ UNCHANGED <<text, to_addr, subject, handlers, exitCode, env>>

\* Confirmed as a bug would have it: any captured confirmation sends
Confirmed_AnyText(conf, smtp) ==
    IF Truthy(conf)
    THEN send_email(to_addr.val, subject.val, body.val, email_cfg, smtp).calls
    ELSE <<Speak("Email cancelled.", <<>>)>>

\* what follows the confirmation listen, lines 248-251
Confirmed(conf, smtp) ==
    IF Truthy(conf) /\ Contains(conf.val, kw_yes)
    THEN send_email(to_addr.val, subject.val, body.val, email_cfg, smtp).calls
    ELSE <<Speak("Email cancelled.", <<>>)>>

\* lines 247-251; the locals die with the return
AwaitConfirmation ==
    /\ pc = "confirm"
    /\ \E conf \in Replies, smtp \in CallOutcomes :
        calls' = calls \o <<Listen("5/3", conf)>> \o Confirmed(conf, smtp)
    /\ to_addr' = None
    /\ subject' = None
    /\ body' = None
    /\ pc' = "sleep"
    /\ UNCHANGED <<text, handlers, exitCode, env>>

\* line 271 and the loop's way back to line 268. The turn is over: its record
\* (calls, handlers) is cleared, and so is text, which line 268 overwrites before
\* anything reads it again.
Sleep ==
    /\ pc = "sleep"
    /\ pc' = "listen"
    /\ text' = None
    /\ calls' = <<>>
    /\ handlers' = <<>>
    /\ UNCHANGED <<draft, exitCode, env>>

\* lines 274-277: Ctrl-C anywhere inside main_loop
Interrupt ==
    /\ pc \notin {"exited", "crashed", "interrupted"}
    /\ calls' = Append(calls, Speak("Shutting down. Bye!", <<>>))
    /\ pc' = "interrupted"
    /\ exitCode' = 0
    /\ UNCHANGED <<text, draft, handlers, env>>

Next ==
    \/ Start
    \/ ListenTop
    \/ NoUtterance
    \/ Greet
    \/ TellTime
    \/ TellDate
    \/ OpenWebsite
    \/ OpenApp
    \/ Encyclopedia
    \/ Weather
    \/ ComposeEmail
    \/ AwaitRecipient
    \/ AwaitSubject
    \/ AwaitBody
    \/ AwaitConfirmation
    \/ Exit
    \/ Unrecognized
    \/ Sleep
    \/ Interrupt

Spec == Init /\ [][Next]_vars

(***************************************************************************)
(* Properties.                                                             *)
(***************************************************************************)
\* the turn's record is complete: parse_and_execute returned, or the process died
TurnOver == pc \in {"sleep", "exited", "crashed"}

\* a top-level utterance was captured and its branch has run (at least up to the
\* branch's first listen)
Dispatched == text.some /\ pc \notin {"start", "listen", "parse", "interrupted"}

Listens == SelectSeq(calls, LAMBDA c : c.fn = "listen")
Sends == SelectSeq(calls, LAMBDA c : c.fn = "send_email")
SendAt == {i \in 1..Len(calls) : calls[i].fn = "send_email"}

\* a listen call that captured text; one whose text holds "yes"
Heard(c) == c.args # <<>> /\ c.args[1] # <<>>
Affirmative(c) == Heard(c) /\ Contains(c.args[1], kw_yes)

\* the turn is an e-mail conversation
InConversation == handlers = <<"ComposeEmail">>

\* some rule before the exit rule matches t
EarlierThanExit(t) ==
    \/ GreetCond(t) \/ TimeCond(t) \/ DateCond(t) \/ WebsiteCond(t)
    \/ AppCond(t) \/ WikiCond(t) \/ WeatherCond(t) \/ EmailCond(t)

\* the weather rule is the first that matches t
ReachesWeather(t) ==
    /\ ~(GreetCond(t) \/ TimeCond(t) \/ DateCond(t) \/ WebsiteCond(t))
    /\ ~(AppCond(t) \/ WikiCond(t))
    /\ WeatherCond(t)

\* the words after the first, and after the last, "in" of a token list holding it
RECURSIVE AfterFirstIn(_)
AfterFirstIn(words) ==
    IF Head(words) = tok_in THEN Tail(words) ELSE AfterFirstIn(Tail(words))

RECURSIVE AfterLastIn(_)
AfterLastIn(words) ==
    IF InList(Tail(words), tok_in) THEN AfterLastIn(Tail(words)) ELSE Tail(words)

WeatherPrompt == Speak("Please include the city after 'in'", <<>>)

\* the weather turn's calls when get_weather is (not) to be called with `city`
WeatherOutcome(city) ==
    IF city # <<>>
    THEN /\ Len(calls) = 3
         /\ calls[2].fn = "get_weather"
         /\ calls[2].args = <<city>>
    ELSE calls = <<calls[1], WeatherPrompt>>

----------------------------------------------------------------------------
\* C1: in an e-mail conversation send_email is invoked at most once, and only
\* right after the fourth listen of the conversation (the confirmation, timeouts
\* 5/3) returned text containing "yes"; after any other outcome of the recipient
\* or confirmation listen it is never invoked; nothing but the report of the
\* send follows it, whatever it returned, and the conversation is over.
C1_SendOnceOnlyAfterYes ==
    /\ Cardinality(SendAt) <= 1
    /\ \A i \in SendAt :
        /\ InConversation
        /\ calls[i - 1].fn = "listen"
        /\ calls[i - 1].tag = "5/3"
        /\ Affirmative(calls[i - 1])
        /\ Len(SelectSeq(SubSeq(calls, 1, i), LAMBDA c : c.fn = "listen")) = 5
        /\ pc \in {"sleep", "interrupted"}
        /\ \A j \in (i + 1)..Len(calls) : calls[j].fn = "speak"
    /\ (InConversation /\ pc = "sleep" /\ SendAt = {}) =>
        \/ Len(Listens) = 2 /\ ~Heard(Listens[2])
        \/ Len(Listens) = 5 /\ ~Affirmative(Listens[5])

\* C1: a send that returned False was not repeated and the turn is over
C1_Witness ==
    /\ pc = "sleep"
    /\ Len(Sends) = 1
    /\ Sends[1].tag = "False"
    /\ email_cfg

C3_ExactlyOneHandler ==
    Dispatched => handlers = <<Branch(text.val)>>

\* C4: in the turn of a captured, non-empty utterance, a collaborator call that
\* failed (raised) is not repeated, is reported by the speak that follows it, and
\* leaves the process running.
C4_FailureReportedNoCrash ==
    \A i \in 1..Len(calls) :
        (/\ Truthy(text)
         /\ calls[i].fn \notin {"speak", "listen"}
         /\ calls[i].tag = "raise") =>
            /\ pc # "crashed"
            /\ i < Len(calls)
            /\ calls[i + 1].fn = "speak"

\* C5: when the recipient listen captured r and the confirmation holds "yes",
\* send_email was invoked exactly once, with r, the subject heard or
\* "No subject", and the body heard or "", and "Email cancelled." was not said.
C5_SentWithDefaults ==
    (InConversation /\ Len(Listens) = 5 /\ Affirmative(Listens[5])) =>
        /\ Len(Sends) = 1
        /\ Sends[1].args =
            << Listens[2].args[1],
               IF Heard(Listens[3]) THEN Listens[3].args[1] ELSE default_subject,
               IF Heard(Listens[4]) THEN Listens[4].args[1] ELSE <<>> >>
        /\ \A i \in 1..Len(calls) : calls[i] # Speak("Email cancelled.", <<>>)
        /\ pc \in {"sleep", "interrupted"}

\* C5: a conversation with neither subject nor body that was sent
C5_Witness ==
    /\ pc = "sleep"
    /\ Len(Listens) = 5
    /\ ~Heard(Listens[3])
    /\ ~Heard(Listens[4])
    /\ Len(Sends) = 1

\* C6: a turn whose listen returned None or "" runs no handler and calls no
\* collaborator, and main_loop goes on.
C6_EmptyIsNoOp ==
    (TurnOver /\ ~Truthy(text)) =>
        /\ pc = "sleep"
        /\ handlers = <<>>
        /\ Len(calls) = 1

\* C7: once an utterance is classified Exit and dispatched, the farewell is the
\* last thing said, the process has exited with code 0, and no step (listen,
\* classification, dispatch) can follow.
C7_ExitTerminates ==
    (\/ pc = "exited"
     \/ Dispatched /\ Branch(text.val) = "Exit") =>
        /\ pc = "exited"
        /\ exitCode = 0
        /\ calls[Len(calls)] = Speak("Goodbye!", <<>>)
        /\ Len(Listens) = 1
        /\ ~ENABLED Next

\* C7: the process ended on the exit keyword "goodbye"
C7_Witness ==
    /\ pc = "exited"
    /\ text = Some(kw_goodbye)

\* C8 as stated: the city given to get_weather is what follows the last "in".
C8_Original ==
    (Dispatched /\ ReachesWeather(text.val)) =>
        LET words == Split(text.val)
        IN  WeatherOutcome(IF InList(words, tok_in)
                           THEN Join(AfterLastIn(words)) ELSE <<>>)

\* C8 as amended: the city given to get_weather is the tokens after the first
\* "in", joined by single spaces; with no "in" token or nothing after the first
\* one, get_weather is not called and the missing-city prompt is all that is said.
C8_CityAfterFirstIn ==
    (Dispatched /\ ReachesWeather(text.val)) =>
        LET words == Split(text.val)
        IN  WeatherOutcome(IF InList(words, tok_in)
                           THEN Join(AfterFirstIn(words)) ELSE <<>>)

\* C8: get_weather was called for an utterance with two "in" tokens
C8_Witness ==
    /\ pc = "sleep"
    /\ text = Some(u_weather_in_paris_in_june)
    /\ Len(calls) = 3
    /\ calls[2].fn = "get_weather"

\* C9: an utterance of the open-application rule with no token after the prefix
\* gets the "no mapping" message for the empty key, launches nothing, raises
\* nothing, and the turn ends normally.
C9_EmptyAppKeyRejected ==
    (/\ Dispatched
     /\ Branch(text.val) = "OpenApp"
     /\ (AppPrefixes(text.val) = <<>> \/ AppTokens(text.val) = <<>>)) =>
        /\ pc = "sleep"
        /\ calls = <<calls[1], Speak("I don't have a mapping for", << <<>> >>)>>

\* C10: when the recipient listen captures nothing (None or ""), the
\* conversation is over at once: the cancellation is said, no further prompt or
\* listen of the dialogue happens, send_email is not invoked, the draft is gone
\* and the process is back in main_loop, before its top-level listen.
C10_NoRecipientCancels ==
    (InConversation /\ Len(Listens) >= 2 /\ ~Heard(Listens[2])) =>
        /\ pc \in {"sleep", "interrupted"}
        /\ SubSeq(calls, 1, 4) =
            << calls[1], Speak("Who is the recipient?", <<>>), Listens[2],
               Speak("Recipient not provided. Cancelling.", <<>>) >>
        /\ Len(calls) = IF pc = "sleep" THEN 4 ELSE 5
        /\ Len(Listens) = 2
        /\ Sends = <<>>
        /\ to_addr = None /\ subject = None /\ body = None
        /\ pc = "sleep" => (ENABLED Sleep /\ ~ENABLED AwaitSubject)

\* C10: the recipient listen returned "" and the conversation was cancelled
C10_Witness ==
    /\ pc = "sleep"
    /\ InConversation
    /\ Len(Listens) = 2
    /\ Listens[2].args = << <<>> >>

=============================================================================
